---- MODULE Spec2Model ----
(***************************************************************************)
(* A model of tectonic's I/O provider stack (src/io/stack.rs) and of the   *)
(* weak-equivalence helpers of its error types (src/errors.rs).            *)
(*                                                                         *)
(* An IoStack holds an ordered vector of subordinate IoProviders.  Each of *)
(* its five operations walks the vector in order, invokes the same        *)
(* operation on each item and returns the first result that is not        *)
(* NotAvailable.  The walk is modelled one loop iteration at a time so     *)
(* that the order of the provider invocations is visible in the state.     *)
(*                                                                         *)
(* Three specifications share the variables:                               *)
(*   Spec      calls on an IoStack;                                        *)
(*   SpecSame  comparisons by DefinitelySame::definitely_same;             *)
(*   SpecPass  a compilation job: passes of the engine, the                *)
(*             Pass-Dependency Detector and the driver, which are not part *)
(*             of the two source files and follow the design document.     *)
(***************************************************************************)
EXTENDS Integers, Sequences, FiniteSets, TLC

\* ------------------------------------------------------------------ bounds

\* The largest number of subordinate providers a caller hands to IoStack::new.
MaxProviders == 3

Providers == 1 .. MaxProviders

\* The names a caller asks for; NoName stands for the absent name argument of
\* output_open_stdout and input_open_primary.
Names == {"a.tex", "toc.aux"}
NoName == ""

Ops == {"output_open_name", "output_open_stdout", "input_open_name",
        "input_open_primary", "input_open_format"}

NamedOps == {"output_open_name", "input_open_name", "input_open_format"}

\* The arguments a caller can pass to operation o.
ArgsOf(o) == IF o \in NamedOps THEN Names ELSE {NoName}

\* ------------------------------------------------------------- OpenResult

\* OpenResult<H>: Success(handle), NotAvailable or Error(error).
NotAvailable == [tag |-> "NotAvailable", val |-> <<>>]
Success(h) == [tag |-> "Success", val |-> h]
Error(e) == [tag |-> "Error", val |-> e]

Tags == {"NotAvailable", "Success", "Error"}

\* What subordinate provider p hands back when operation o is invoked on it
\* with argument a and it answers with outcome t.  The handle or error is
\* the provider's own: it names the provider and the request it served.
ProviderResult(p, o, a, t) ==
    CASE t = "Success" -> Success(<<"handle", p, o, a>>)
      [] t = "Error" -> Error(<<"error", p, o, a>>)
      [] OTHER -> NotAvailable

\* The answers of the providers to one request: an outcome per provider.
Responses == [Providers -> Tags]

\* Vectors of distinct providers (a Vec of &mut borrows cannot alias).
RECURSIVE SeqsOfLen(_)
SeqsOfLen(n) ==
    IF n = 0 THEN {<<>>}
    ELSE {Append(s, p) : s \in SeqsOfLen(n - 1), p \in Providers}

Range(s) == {s[i] : i \in DOMAIN s}

ProviderVecs ==
    {s \in UNION {SeqsOfLen(n) : n \in 0 .. MaxProviders} :
        Cardinality(Range(s)) = Len(s)}

\* ------------------------------------------------------------------ state

VARIABLES
    stack,      \* the IoStack: a record with the one field items
    supplied,   \* the vector the caller passed to IoStack::new
    pc,         \* "idle", "scan" (inside the for loop) or "done" (returned)
    op,         \* the IoStack operation being executed
    arg,        \* its name argument (NoName when it has none)
    resp,       \* how each provider answers this request
    idx,        \* position of the iterator in self.items (1-based)
    result,     \* the value the operation returned
    calls,      \* the provider invocations made by this call, in order
    prev        \* the call completed just before, when this one repeats it

stackVars == <<stack, supplied, pc, op, arg, resp, idx, result, calls, prev>>

\* A comparison by DefinitelySame::definitely_same (src/errors.rs).
VARIABLES
    cmp,        \* the type compared: "none", "ErrorKind", "Error" or "Result"
    lhs,        \* self
    rhs,        \* other
    compared,   \* whether definitely_same has returned
    same        \* the value it returned

sameVars == <<cmp, lhs, rhs, compared, same>>

\* A compilation job: the passes of the engine over the stack, the
\* Pass-Dependency Detector that watches the opens, and the driver.
VARIABLES
    fs,           \* the content of each file ("absent" when it does not exist)
    startFs,      \* the content of each file when the current pass began
    maxPasses,    \* the configured maximum number of passes
    passNo,       \* the number of the current pass
    phase,        \* "idle", "inpass", "ended", "aborted" or "finished"
    readFp,       \* per file: its content when this pass first opened it for input
    writeFp,      \* per file: the content this pass last wrote to it
    lastFp,       \* per file: its fingerprint from the last earlier pass that wrote it
    changedPrev,  \* per file: whether the pass before this one changed it
    verdict,      \* the Detector's verdict on the current pass
    job           \* what the driver hands back for the job

passVars == <<fs, startFs, maxPasses, passNo, phase, readFp, writeFp, lastFp,
              changedPrev, verdict, job>>

\* A run of Error::dump_uncolorized (src/errors.rs).
VARIABLES
    err,        \* the error being dumped
    inner,      \* the failure ctry! wrapped to make err, when it did
    wrapped,    \* whether err was made by ctry!
    dpc,        \* "idle", "ready", "iter" (inside the for loop) or "done"
    prefix,     \* the local variable prefix
    pos,        \* position of self.iter() in the chain (1-based)
    stderr      \* the lines written to standard error, in order

dumpVars == <<err, inner, wrapped, dpc, prefix, pos, stderr>>

vars == <<stackVars, sameVars, passVars, dumpVars>>

NoPrev == [op |-> "none", arg |-> NoName, resp |-> <<>>, result |-> NotAvailable]

\* A constructor that stores the vector back to front.
new_Reversed(v) == [items |-> [i \in 1 .. Len(v) |-> v[Len(v) - i + 1]]]

\* IoStack::new: the vector is stored as given.
new(v) == [items |-> v]

\* No comparison has run.
SameIdle ==
    /\ cmp = "none"
    /\ lhs = <<>>
    /\ rhs = <<>>
    /\ compared = FALSE
    /\ same = FALSE

NoJob == [result |-> "none", failed |-> FALSE, warning |-> FALSE, output |-> <<>>]

\* No error is being dumped.
DumpIdle ==
    /\ err = <<>>
    /\ inner = <<>>
    /\ wrapped = FALSE
    /\ dpc = "idle"
    /\ prefix = ""
    /\ pos = 1
    /\ stderr = <<>>

\* No job is running.
PassIdle ==
    /\ fs = [f \in Names |-> "absent"]
    /\ startFs = [f \in Names |-> "absent"]
    /\ maxPasses = 1
    /\ passNo = 0
    /\ phase = "idle"
    /\ readFp = [f \in Names |-> "unread"]
    /\ writeFp = [f \in Names |-> "unwritten"]
    /\ lastFp = [f \in Names |-> "never"]
    /\ changedPrev = [f \in Names |-> FALSE]
    /\ verdict = "none"
    /\ job = NoJob

Init ==
    /\ SameIdle
    /\ PassIdle
    /\ DumpIdle
    /\ \E v \in ProviderVecs : stack = new(v) /\ supplied = v
    /\ pc = "idle"
    /\ op = "none"
    /\ arg = NoName
    /\ resp = [p \in Providers |-> "NotAvailable"]
    /\ idx = 1
    /\ result = NotAvailable
    /\ calls = <<>>
    /\ prev = NoPrev

\* ------------------------------------------------------------- operations

\* An input_open_format that looks the format up as an ordinary named input.
ItemCall_FormatAsName(o, a) ==
    CASE o = "output_open_name" -> [op |-> "output_open_name", arg |-> a]
      [] o = "output_open_stdout" -> [op |-> "output_open_stdout", arg |-> NoName]
      [] o = "input_open_name" -> [op |-> "input_open_name", arg |-> a]
      [] o = "input_open_primary" -> [op |-> "input_open_primary", arg |-> NoName]
      [] o = "input_open_format" -> [op |-> "input_open_name", arg |-> a]

\* The invocation each IoStack operation makes on an item of the vector:
\* the operation of the same name, with the caller's name argument.
ItemCall(o, a) ==
    CASE o = "output_open_name" -> [op |-> "output_open_name", arg |-> a]
      [] o = "output_open_stdout" -> [op |-> "output_open_stdout", arg |-> NoName]
      [] o = "input_open_name" -> [op |-> "input_open_name", arg |-> a]
      [] o = "input_open_primary" -> [op |-> "input_open_primary", arg |-> NoName]
      [] o = "input_open_format" -> [op |-> "input_open_format", arg |-> a]

\* An invocation that wraps a provider's error in a context of the stack's own.
Invoke_Wrapped(p, o, a) ==
    LET c == ItemCall(o, a)
        r == ProviderResult(p, c.op, c.arg, resp[p])
    IN  IF r.tag = "Error" THEN Error(<<"chained", r.val>>) ELSE r

\* let r = item.<operation>(...)
Invoke(p, o, a) ==
    LET c == ItemCall(o, a) IN ProviderResult(p, c.op, c.arg, resp[p])

\* A match that returns on Success only and falls through on an Error.
Continues_OnError(r) == r.tag # "Success"

\* match r { OpenResult::NotAvailable => continue, _ => return r }
Continues(r) == r.tag = "NotAvailable"

\* An iterator that walks the vector from its last item to its first.
Item_Reversed(i) == stack.items[Len(stack.items) - i + 1]

\* self.items.iter_mut(): the i-th item the iterator yields.
Item(i) == stack.items[i]

\* An iterator that steps over every other item.
Advance_Skip(i) == i + 2

\* The iterator moves on to the next item.
Advance(i) == i + 1

\* A fall-through that reports a failure instead of NotAvailable.
Exhausted_AsError == Error(<<"error", 0, "none", NoName>>)

\* The value returned after the loop: OpenResult::NotAvailable.
Exhausted == NotAvailable

\* The caller enters operation o with argument a; the providers will answer
\* this request as rs says.
Enter(o, a, rs) ==
    /\ pc = "idle"
    /\ pc' = "scan"
    /\ op' = o
    /\ arg' = a
    /\ resp' = rs
    /\ idx' = 1
    /\ result' = NotAvailable
    /\ calls' = <<>>
    /\ prev' = NoPrev
    /\ UNCHANGED <<stack, supplied>>
    /\ UNCHANGED <<sameVars, passVars, dumpVars>>

\* A loop that notes a definitive result but goes on to the next item
\* instead of returning.
LoopStep_NoEarlyReturn(o) ==
    /\ pc = "scan"
    /\ op = o
    /\ idx <= Len(stack.items)
    /\ LET p == Item(idx)
           r == Invoke(p, o, arg)
       IN  /\ calls' = Append(calls, [provider |-> p] @@ ItemCall(o, arg))
           /\ idx' = Advance(idx)
           /\ result' = IF Continues(r) THEN result ELSE r
    /\ UNCHANGED <<stack, supplied, pc, op, arg, resp, prev>>
    /\ UNCHANGED <<sameVars, passVars, dumpVars>>

\* One iteration of `for item in self.items.iter_mut()` in operation o.
LoopStep(o) ==
    /\ pc = "scan"
    /\ op = o
    /\ idx <= Len(stack.items)
    /\ LET p == Item(idx)
           r == Invoke(p, o, arg)
       IN  /\ calls' = Append(calls, [provider |-> p] @@ ItemCall(o, arg))
           /\ IF Continues(r)
              THEN /\ idx' = Advance(idx)
                   /\ UNCHANGED <<pc, result>>
              ELSE /\ result' = r
                   /\ pc' = "done"
                   /\ UNCHANGED idx
    /\ UNCHANGED <<stack, supplied, op, arg, resp, prev>>
    /\ UNCHANGED <<sameVars, passVars, dumpVars>>

\* The iterator is exhausted: the operation returns OpenResult::NotAvailable.
LoopEnd(o) ==
    /\ pc = "scan"
    /\ op = o
    /\ idx > Len(stack.items)
    /\ result' = Exhausted
    /\ pc' = "done"
    /\ UNCHANGED <<stack, supplied, op, arg, resp, idx, calls, prev>>
    /\ UNCHANGED <<sameVars, passVars, dumpVars>>

output_open_name ==
    \/ \E a \in Names, rs \in Responses : Enter("output_open_name", a, rs)
    \/ LoopStep("output_open_name")
    \/ LoopEnd("output_open_name")

output_open_stdout ==
    \/ \E rs \in Responses : Enter("output_open_stdout", NoName, rs)
    \/ LoopStep("output_open_stdout")
    \/ LoopEnd("output_open_stdout")

input_open_name ==
    \/ \E a \in Names, rs \in Responses : Enter("input_open_name", a, rs)
    \/ LoopStep("input_open_name")
    \/ LoopEnd("input_open_name")

input_open_primary ==
    \/ \E rs \in Responses : Enter("input_open_primary", NoName, rs)
    \/ LoopStep("input_open_primary")
    \/ LoopEnd("input_open_primary")

input_open_format ==
    \/ \E a \in Names, rs \in Responses : Enter("input_open_format", a, rs)
    \/ LoopStep("input_open_format")
    \/ LoopEnd("input_open_format")

\* The caller takes the returned value and moves on; the call's locals are gone.
Return ==
    /\ pc = "done"
    /\ pc' = "idle"
    /\ op' = "none"
    /\ arg' = NoName
    /\ resp' = [p \in Providers |-> "NotAvailable"]
    /\ idx' = 1
    /\ result' = NotAvailable
    /\ calls' = <<>>
    /\ prev' = NoPrev
    /\ UNCHANGED <<stack, supplied>>
    /\ UNCHANGED <<sameVars, passVars, dumpVars>>

\* The caller takes the returned value and issues the same call again; the
\* providers answer as they did before.
Repeat ==
    /\ pc = "done"
    /\ prev' = [op |-> op, arg |-> arg, resp |-> resp, result |-> result]
    /\ pc' = "scan"
    /\ idx' = 1
    /\ result' = NotAvailable
    /\ calls' = <<>>
    /\ UNCHANGED <<stack, supplied, op, arg, resp>>
    /\ UNCHANGED <<sameVars, passVars, dumpVars>>

Next ==
    \/ output_open_name
    \/ output_open_stdout
    \/ input_open_name
    \/ input_open_primary
    \/ input_open_format
    \/ Return
    \/ Repeat

Spec == Init /\ [][Next]_vars

\* ----------------------------------------------------------- error types

\* The longest chain of causes under an error.
MaxChain == 2

Msgs == {"no such file", "while opening input foo.tex"}
Paths == {"../secret", "/etc/passwd"}
Lengths == {0, 1}

\* ErrorKind, as error_chain! generates it: Msg(String), the foreign links
\* (one stands for them here) and the four kinds of the errors block.
Msg(s) == <<"Msg", s>>
BadLength(expected, observed) == <<"BadLength", expected, observed>>
NotSeekable == <<"NotSeekable">>
NotSizeable == <<"NotSizeable">>
PathForbidden(path) == <<"PathForbidden", path>>
Io(e) == <<"Io", e>>

ErrorKinds ==
    {Msg(s) : s \in Msgs}
    \cup {BadLength(e, o) : e \in Lengths, o \in Lengths}
    \cup {NotSeekable, NotSizeable}
    \cup {PathForbidden(q) : q \in Paths}
    \cup {Io(s) : s \in Msgs}

\* The chains of causes an error can carry (each cause by its message).
RECURSIVE ChainsOfLen(_)
ChainsOfLen(n) ==
    IF n = 0 THEN {<<>>}
    ELSE {Append(c, m) : c \in ChainsOfLen(n - 1), m \in Msgs}

Chains == UNION {ChainsOfLen(n) : n \in 0 .. MaxChain}

Backtraces == {"none", "frames A", "frames B"}

\* Error: a kind, the chain of causes under it and an optional backtrace.
Errors == [kind : ErrorKinds, causes : Chains, backtrace : Backtraces]

\* Error::kind()
kind(e) == e.kind

\* StdResult<T, E> with T = ErrorKind and E = Error, two types this file
\* implements DefinitelySame for.
Ok(t) == [tag |-> "Ok", val |-> t]
Err(e) == [tag |-> "Err", val |-> e]

Results == {Ok(t) : t \in ErrorKinds} \cup {Err(e) : e \in Errors}

\* A comparison by structural equality of the two kinds.
definitely_same_ErrorKind_Structural(self, other) == self = other

\* impl DefinitelySame for ErrorKind
definitely_same_ErrorKind(self, other) ==
    IF self[1] = "Msg"
    THEN IF other[1] = "Msg" THEN self[2] = other[2] ELSE FALSE
    ELSE FALSE

\* A comparison that also looks at the causes and the backtrace.
definitely_same_Error_Structural(self, other) ==
    /\ definitely_same_ErrorKind(kind(self), kind(other))
    /\ self.causes = other.causes
    /\ self.backtrace = other.backtrace

\* impl DefinitelySame for Error
definitely_same_Error(self, other) ==
    definitely_same_ErrorKind(kind(self), kind(other))

\* impl DefinitelySame for StdResult<T, E>
definitely_same_Result(self, other) ==
    CASE self.tag = "Ok" ->
            IF other.tag = "Ok"
            THEN definitely_same_ErrorKind(self.val, other.val)
            ELSE FALSE
      [] self.tag = "Err" ->
            IF other.tag = "Err"
            THEN definitely_same_Error(self.val, other.val)
            ELSE FALSE

\* Two values of one of the three types, not yet compared.
InitSame ==
    /\ \/ cmp = "ErrorKind" /\ lhs \in ErrorKinds /\ rhs \in ErrorKinds
       \/ cmp = "Error" /\ lhs \in Errors /\ rhs \in Errors
       \/ cmp = "Result" /\ lhs \in Results /\ rhs \in Results
    /\ compared = FALSE
    /\ same = FALSE
    /\ PassIdle
    /\ DumpIdle
    /\ stack = new(<<>>) /\ supplied = <<>>
    /\ pc = "idle" /\ op = "none" /\ arg = NoName
    /\ resp = [p \in Providers |-> "NotAvailable"]
    /\ idx = 1 /\ result = NotAvailable /\ calls = <<>> /\ prev = NoPrev

\* lhs.definitely_same(&rhs) for two ErrorKinds.
CompareErrorKinds ==
    /\ cmp = "ErrorKind"
    /\ ~compared
    /\ same' = definitely_same_ErrorKind(lhs, rhs)
    /\ compared' = TRUE
    /\ UNCHANGED <<cmp, lhs, rhs, stackVars, passVars, dumpVars>>

\* lhs.definitely_same(&rhs) for two Errors.
CompareErrors ==
    /\ cmp = "Error"
    /\ ~compared
    /\ same' = definitely_same_Error(lhs, rhs)
    /\ compared' = TRUE
    /\ UNCHANGED <<cmp, lhs, rhs, stackVars, passVars, dumpVars>>

\* lhs.definitely_same(&rhs) for two StdResults.
CompareResults ==
    /\ cmp = "Result"
    /\ ~compared
    /\ same' = definitely_same_Result(lhs, rhs)
    /\ compared' = TRUE
    /\ UNCHANGED <<cmp, lhs, rhs, stackVars, passVars, dumpVars>>

NextSame == CompareErrorKinds \/ CompareErrors \/ CompareResults

SpecSame == InitSame /\ [][NextSame]_vars

\* ------------------------------------------------- Error::dump_uncolorized

\* The display text of an ErrorKind: the message of a Msg, the display
\* clause of the errors block, the foreign error's own text.
Display(k) ==
    CASE k[1] = "Msg" -> k[2]
      [] k[1] = "BadLength" ->
            "expected length " \o ToString(k[2]) \o "; found " \o ToString(k[3])
      [] k[1] = "NotSeekable" -> "this stream is not seekable"
      [] k[1] = "NotSizeable" -> "the size of this stream cannot be determined"
      [] k[1] = "PathForbidden" -> "access to the path " \o k[2] \o " is forbidden"
      [] k[1] = "Io" -> k[2]

\* self.iter(): the error itself, then each of its causes.
ChainItems(e) == <<Display(e.kind)>> \o e.causes

\* ctry!: $op.chain_err(|| format!(..)) puts a message-style error with
\* the formatted context on top of the failure, which becomes its cause.
chain_err(e, context) ==
    [kind |-> Msg(context), causes |-> ChainItems(e), backtrace |-> e.backtrace]

\* writeln!(s, "{} {}", prefix, item)
WriteLine(pfx, item) == pfx \o " " \o item

\* let mut prefix = "error:";
FirstPrefix == "error:"

\* A loop that never changes the prefix.
NextPrefix_Unchanged == "error:"

\* prefix = "caused by:";
NextPrefix == "caused by:"

\* The two lines written for a backtrace; a backtrace is identified with
\* its {:?} rendering.
BacktraceLines(bt) == <<"debugging: backtrace follows:", bt>>

\* An error to dump.
InitDump ==
    /\ SameIdle
    /\ PassIdle
    /\ stack = new(<<>>) /\ supplied = <<>>
    /\ pc = "idle" /\ op = "none" /\ arg = NoName
    /\ resp = [p \in Providers |-> "NotAvailable"]
    /\ idx = 1 /\ result = NotAvailable /\ calls = <<>> /\ prev = NoPrev
    /\ err \in Errors
    /\ inner = err
    /\ wrapped = FALSE
    /\ dpc = "ready"
    /\ prefix = ""
    /\ pos = 1
    /\ stderr = <<>>

\* The failure is wrapped by ctry! with a context message before it is
\* dumped.
Ctry ==
    /\ dpc = "ready"
    /\ ~wrapped
    /\ Len(err.causes) < MaxChain
    /\ \E context \in Msgs : err' = chain_err(err, context)
    /\ inner' = err
    /\ wrapped' = TRUE
    /\ UNCHANGED <<dpc, prefix, pos, stderr>>
    /\ UNCHANGED <<stackVars, sameVars, passVars>>

\* dump_uncolorized is entered.
DumpEnter ==
    /\ dpc = "ready"
    /\ dpc' = "iter"
    /\ prefix' = FirstPrefix
    /\ pos' = 1
    /\ UNCHANGED <<err, inner, wrapped, stderr>>
    /\ UNCHANGED <<stackVars, sameVars, passVars>>

\* One iteration of `for item in self.iter()`.
DumpItem ==
    /\ dpc = "iter"
    /\ pos <= Len(ChainItems(err))
    /\ stderr' = Append(stderr, WriteLine(prefix, ChainItems(err)[pos]))
    /\ prefix' = NextPrefix
    /\ pos' = pos + 1
    /\ UNCHANGED <<err, inner, wrapped, dpc>>
    /\ UNCHANGED <<stackVars, sameVars, passVars>>

\* After the loop: if let Some(backtrace) = self.backtrace() { .. }
DumpBacktrace ==
    /\ dpc = "iter"
    /\ pos > Len(ChainItems(err))
    /\ err.backtrace # "none"
    /\ stderr' = stderr \o BacktraceLines(err.backtrace)
    /\ dpc' = "done"
    /\ UNCHANGED <<err, inner, wrapped, prefix, pos>>
    /\ UNCHANGED <<stackVars, sameVars, passVars>>

\* After the loop, without a backtrace: the function returns.
DumpReturn ==
    /\ dpc = "iter"
    /\ pos > Len(ChainItems(err))
    /\ err.backtrace = "none"
    /\ dpc' = "done"
    /\ UNCHANGED <<err, inner, wrapped, prefix, pos, stderr>>
    /\ UNCHANGED <<stackVars, sameVars, passVars>>

NextDump == Ctry \/ DumpEnter \/ DumpItem \/ DumpBacktrace \/ DumpReturn

SpecDump == InitDump /\ [][NextDump]_vars

\* ---------------------------------------- passes, Detector and driver

\* The largest pass-count ceiling a driver is configured with.
MaxPasses == 3

Contents == {"C1", "C2"}

\* The access records an IoStack holds about the opens that went through
\* it: the struct has the one field items, and no operation stores
\* anything, so it holds none.
IoStackRecord(st) ==
    [read |-> [f \in Names |-> "unread"], write |-> [f \in Names |-> "unwritten"]]

\* The access records of the Detector, which sees every open of the pass.
DetectorRecord == [read |-> readFp, write |-> writeFp]

\* The fingerprint an output of this pass is compared with: the one from
\* the last earlier pass that wrote the file, else its content when the
\* pass began.
Baseline(f) == IF lastFp[f] # "never" THEN lastFp[f] ELSE startFs[f]

\* File f was written in this pass with a changed fingerprint.
ChangedNow(rec, f) ==
    rec.write[f] # "unwritten" /\ rec.write[f] # Baseline(f)

\* Divergence: some file was read in this pass and written with a changed
\* fingerprint in this pass or in the one before it.
Diverged(rec) ==
    \E f \in Names :
        /\ rec.read[f] # "unread"
        /\ (ChangedNow(rec, f) \/ changedPrev[f])

\* The Detector's verdict on a completed pass with access records rec.
PassVerdict(rec) == IF Diverged(rec) THEN "NeedsAnotherPass" ELSE "Converged"

\* A detector that judges an aborted pass by its partial record.
AbortVerdict_FromPartial(rec) == PassVerdict(rec)

\* The Detector's verdict on an aborted pass: its record is incomplete.
AbortVerdict(rec) == "Inconclusive"

\* A driver that allows one pass more than configured.
CeilingReached_OffByOne(n, max) == n > max

\* The driver's ceiling test after pass n.
CeilingReached(n, max) == n >= max

\* A job starts: some files may exist already, none was written by a pass.
InitPass ==
    /\ SameIdle
    /\ DumpIdle
    /\ stack = new(<<1, 2>>) /\ supplied = <<1, 2>>
    /\ pc = "idle" /\ op = "none" /\ arg = NoName
    /\ resp = [p \in Providers |-> "NotAvailable"]
    /\ idx = 1 /\ result = NotAvailable /\ calls = <<>> /\ prev = NoPrev
    /\ fs \in [Names -> Contents \cup {"absent"}]
    /\ startFs = fs
    /\ maxPasses \in 1 .. MaxPasses
    /\ passNo = 1
    /\ phase = "inpass"
    /\ readFp = [f \in Names |-> "unread"]
    /\ writeFp = [f \in Names |-> "unwritten"]
    /\ lastFp = [f \in Names |-> "never"]
    /\ changedPrev = [f \in Names |-> FALSE]
    /\ verdict = "none"
    /\ job = NoJob

\* The engine opens f for input through the stack (input_open_name).  The
\* stack's operations assign nothing in self; the Detector notes the
\* content the file has at its first read.
EngineRead(f) ==
    /\ phase = "inpass"
    /\ readFp' = [readFp EXCEPT ![f] = IF @ = "unread" THEN fs[f] ELSE @]
    /\ UNCHANGED <<fs, startFs, maxPasses, passNo, phase, writeFp, lastFp,
                   changedPrev, verdict, job>>
    /\ UNCHANGED <<stackVars, sameVars, dumpVars>>

\* The engine opens f for output through the stack (output_open_name) and
\* writes content c; the Detector notes the fingerprint.
EngineWrite(f, c) ==
    /\ phase = "inpass"
    /\ fs' = [fs EXCEPT ![f] = c]
    /\ writeFp' = [writeFp EXCEPT ![f] = c]
    /\ UNCHANGED <<startFs, maxPasses, passNo, phase, readFp, lastFp,
                   changedPrev, verdict, job>>
    /\ UNCHANGED <<stackVars, sameVars, dumpVars>>

\* The pass completes: the Detector computes its verdict.
EndPass ==
    /\ phase = "inpass"
    /\ phase' = "ended"
    /\ verdict' = PassVerdict(DetectorRecord)
    /\ UNCHANGED <<fs, startFs, maxPasses, passNo, readFp, writeFp, lastFp,
                   changedPrev, job>>
    /\ UNCHANGED <<stackVars, sameVars, dumpVars>>

\* The engine fails fatally in the middle of a pass: the partial record
\* backs no verdict, and the job fails.
AbortPass ==
    /\ phase = "inpass"
    /\ phase' = "aborted"
    /\ verdict' = AbortVerdict(DetectorRecord)
    /\ job' = [result |-> AbortVerdict(DetectorRecord), failed |-> TRUE,
               warning |-> FALSE, output |-> <<>>]
    /\ UNCHANGED <<fs, startFs, maxPasses, passNo, readFp, writeFp, lastFp,
                   changedPrev>>
    /\ UNCHANGED <<stackVars, sameVars, dumpVars>>

\* The driver, after a converged pass: the job is done.
DriverFinish ==
    /\ phase = "ended"
    /\ verdict = "Converged"
    /\ phase' = "finished"
    /\ job' = [result |-> "Converged", failed |-> FALSE, warning |-> FALSE,
               output |-> fs]
    /\ UNCHANGED <<fs, startFs, maxPasses, passNo, readFp, writeFp, lastFp,
                   changedPrev, verdict>>
    /\ UNCHANGED <<stackVars, sameVars, dumpVars>>

\* The driver, after a pass that did not converge, below the ceiling:
\* exactly one more pass is scheduled.
DriverRerun ==
    /\ phase = "ended"
    /\ verdict = "NeedsAnotherPass"
    /\ ~CeilingReached(passNo, maxPasses)
    /\ phase' = "inpass"
    /\ passNo' = passNo + 1
    /\ startFs' = fs
    /\ lastFp' = [f \in Names |->
                    IF writeFp[f] # "unwritten" THEN writeFp[f] ELSE lastFp[f]]
    /\ changedPrev' = [f \in Names |-> ChangedNow(DetectorRecord, f)]
    /\ readFp' = [f \in Names |-> "unread"]
    /\ writeFp' = [f \in Names |-> "unwritten"]
    /\ verdict' = "none"
    /\ UNCHANGED <<fs, maxPasses, job>>
    /\ UNCHANGED <<stackVars, sameVars, dumpVars>>

\* The driver, after a pass that did not converge, at the ceiling: the
\* result is Inconclusive, a warning, and the last pass's output.
DriverGiveUp ==
    /\ phase = "ended"
    /\ verdict = "NeedsAnotherPass"
    /\ CeilingReached(passNo, maxPasses)
    /\ phase' = "finished"
    /\ job' = [result |-> "Inconclusive", failed |-> FALSE, warning |-> TRUE,
               output |-> fs]
    /\ UNCHANGED <<fs, startFs, maxPasses, passNo, readFp, writeFp, lastFp,
                   changedPrev, verdict>>
    /\ UNCHANGED <<stackVars, sameVars, dumpVars>>

NextPass ==
    \/ \E f \in Names : EngineRead(f)
    \/ \E f \in Names, c \in Contents : EngineWrite(f, c)
    \/ EndPass
    \/ AbortPass
    \/ DriverFinish
    \/ DriverRerun
    \/ DriverGiveUp

SpecPass == InitPass /\ [][NextPass]_vars

\* ------------------------------------------------------ claims: dispatch

\* The result the dispatch rule prescribes for vector v: the answer of the
\* lowest-index provider that does not answer NotAvailable.
Definitive(v, rs) == {i \in 1 .. Len(v) : rs[v[i]] # "NotAvailable"}

FirstDefinitive(v, rs) ==
    CHOOSE i \in Definitive(v, rs) : \A j \in Definitive(v, rs) : i <= j

Prescribed(v, o, a, rs) ==
    IF Definitive(v, rs) = {} THEN NotAvailable
    ELSE LET i == FirstDefinitive(v, rs) IN ProviderResult(v[i], o, a, rs[v[i]])

\* C1: for each of the five operations, when the first provider answers
\* Success or Error the stack returns exactly that answer whatever the later
\* providers would answer; in general the stack returns the answer of the
\* lowest-index provider that does not answer NotAvailable.
C1_FirstProviderWins ==
    pc = "done" =>
        /\ result = Prescribed(stack.items, op, arg, resp)
        /\ (Len(stack.items) >= 1 /\ resp[stack.items[1]] # "NotAvailable") =>
              result = ProviderResult(stack.items[1], op, arg, resp[stack.items[1]])

\* The shadow law's case: "a.tex" is in provider 0 and in provider 1.
C1_Witness ==
    /\ pc = "done"
    /\ op = "input_open_name"
    /\ arg = "a.tex"
    /\ Len(stack.items) >= 2
    /\ resp[stack.items[1]] = "Success"
    /\ resp[stack.items[2]] = "Success"
    /\ result = Success(<<"handle", stack.items[1], "input_open_name", "a.tex">>)

\* C2: when provider i answers Error after every earlier provider answered
\* NotAvailable, the stack returns provider i's Error, also when provider
\* i+1 would answer Success.
C2_ErrorNotOverridden ==
    pc = "done" =>
        \A i \in 1 .. Len(stack.items) :
            ( /\ resp[stack.items[i]] = "Error"
              /\ \A j \in 1 .. i - 1 : resp[stack.items[j]] = "NotAvailable" )
            => result = Error(<<"error", stack.items[i], op, arg>>)

C2_Witness ==
    /\ pc = "done"
    /\ Len(stack.items) = 3
    /\ resp[stack.items[1]] = "NotAvailable"
    /\ resp[stack.items[2]] = "Error"
    /\ resp[stack.items[3]] = "Success"
    /\ result.tag = "Error"

\* C3: within one call the providers are invoked in index order without
\* skipping, and no provider is invoked after one has answered Success or
\* Error: the k-th invocation is on item k, and every invocation but the
\* last was answered NotAvailable.
C3_InvokedInOrder ==
    /\ Len(calls) <= Len(stack.items)
    /\ \A k \in 1 .. Len(calls) :
          /\ calls[k].provider = stack.items[k]
          /\ k < Len(calls) => resp[stack.items[k]] = "NotAvailable"
    /\ (pc = "done" /\ result.tag # "NotAvailable") =>
          /\ calls # <<>>
          /\ resp[calls[Len(calls)].provider] = result.tag

C3_Witness ==
    /\ pc = "done"
    /\ Len(stack.items) = 3
    /\ Len(calls) = 2
    /\ result.tag = "Success"

\* C4: when every provider answers NotAvailable the stack returns
\* NotAvailable after invoking each provider; a stack over an empty vector
\* returns NotAvailable without invoking anything.
C4_AllNotAvailable ==
    ( /\ pc = "done"
      /\ \A i \in 1 .. Len(stack.items) : resp[stack.items[i]] = "NotAvailable" )
    => /\ result = NotAvailable
       /\ Len(calls) = Len(stack.items)
       /\ {calls[k].provider : k \in 1 .. Len(calls)} = Range(stack.items)
       /\ stack.items = <<>> => calls = <<>>

C4_Witness ==
    /\ pc = "done"
    /\ Len(stack.items) = MaxProviders
    /\ \A i \in 1 .. Len(stack.items) : resp[stack.items[i]] = "NotAvailable"
    /\ Len(calls) = MaxProviders
    /\ result = NotAvailable

\* C5: an Error is returned as the provider gave it, neither swallowed nor
\* changed, and within one call no provider is invoked twice.
C5_ErrorsUnchanged ==
    /\ \A k, l \in 1 .. Len(calls) : calls[k].provider = calls[l].provider => k = l
    /\ pc = "done" =>
          /\ (\E i \in 1 .. Len(stack.items) : resp[stack.items[i]] = "Error"
                 /\ \A j \in 1 .. i - 1 : resp[stack.items[j]] = "NotAvailable")
             => result.tag = "Error"
          /\ result.tag = "Error" =>
                /\ calls # <<>>
                /\ LET c == calls[Len(calls)]
                   IN  result = ProviderResult(c.provider, op, arg, "Error")

C5_Witness ==
    /\ pc = "done"
    /\ result.tag = "Error"
    /\ Len(calls) >= 2

\* C6: the vector is the one the caller supplied, in the caller's order, in
\* every state any sequence of operations reaches; and a call issued again
\* with the providers answering as before returns what it returned before.
C6_OrderFixed ==
    /\ stack.items = supplied
    /\ (pc = "done" /\ prev # NoPrev) =>
          /\ prev.op = op /\ prev.arg = arg /\ prev.resp = resp
          /\ result = prev.result

C6_Witness ==
    /\ pc = "done"
    /\ prev # NoPrev
    /\ Len(stack.items) >= 2
    /\ stack.items[1] > stack.items[2]
    /\ result.tag = "Success"

\* C12: a call to one of the five operations invokes only the operation of
\* the same name on the providers, each time with the caller's own name
\* argument; none of the other four operations is ever invoked.
C12_OperationIsolation ==
    \A k \in 1 .. Len(calls) :
        /\ calls[k].op = op
        /\ calls[k].arg = arg
        /\ calls[k].arg \in ArgsOf(op)

\* input_open_format asked two providers for "toc.aux".
C12_Witness ==
    /\ pc = "done"
    /\ op = "input_open_format"
    /\ arg = "toc.aux"
    /\ Len(calls) = 2
    /\ calls[1].op = "input_open_format"
    /\ calls[2].arg = "toc.aux"

\* C14: a call on a stack of n providers ends after at most n provider
\* invocations: exactly i + 1 when the provider at index i (counted from
\* 0) is the first to answer Success or Error, exactly n when all answer
\* NotAvailable; and a call that has not returned can always take a step.
C14_BoundedInvocations ==
    /\ Len(calls) <= Len(stack.items)
    /\ pc = "scan" => (Len(calls) = idx - 1 /\ ENABLED (LoopStep(op) \/ LoopEnd(op)))
    /\ pc = "done" =>
          Len(calls) = (IF Definitive(stack.items, resp) = {}
                        THEN Len(stack.items)
                        ELSE FirstDefinitive(stack.items, resp))

\* The second of three providers was the first to give a definitive answer.
C14_Witness ==
    /\ pc = "done"
    /\ Len(stack.items) = 3
    /\ resp[stack.items[1]] = "NotAvailable"
    /\ resp[stack.items[2]] # "NotAvailable"
    /\ Len(calls) = 2


\* ------------------------------------------- claims: passes and Detector

\* C7: a pass that reads toc.aux with content C1 and writes it back with
\* content C1 is reported Converged, and one that writes another content
\* is reported NeedsAnotherPass, by the IoStack itself, from what it
\* observed of the reads and writes.
C7_StackDetectsConvergence ==
    ( /\ phase = "ended"
      /\ passNo = 1
      /\ readFp["toc.aux"] = "C1"
      /\ startFs["toc.aux"] = "C1"
      /\ readFp["a.tex"] = "unread"
      /\ writeFp["toc.aux"] # "unwritten" )
    => PassVerdict(IoStackRecord(stack)) =
          (IF writeFp["toc.aux"] = "C1" THEN "Converged" ELSE "NeedsAnotherPass")

\* C8: when the configured number of passes has run without convergence the
\* driver's result is Inconclusive, with a warning and the last pass's
\* output, and the job has not failed; no job runs more passes than
\* configured.
C8_CeilingInconclusive ==
    /\ passNo <= maxPasses
    /\ (phase = "finished" /\ verdict = "NeedsAnotherPass") =>
          /\ passNo = maxPasses
          /\ job.result = "Inconclusive"
          /\ ~job.failed
          /\ job.warning
          /\ job.output = fs
    /\ (phase = "ended" /\ verdict = "NeedsAnotherPass" /\ passNo = maxPasses) =>
          ~ENABLED DriverRerun

\* Two outputs that kept alternating up to the ceiling.
C8_Witness ==
    /\ phase = "finished"
    /\ maxPasses = MaxPasses
    /\ passNo = MaxPasses
    /\ job.result = "Inconclusive"
    /\ job.warning
    /\ ~job.failed
    /\ readFp["toc.aux"] # "unread"
    /\ changedPrev["toc.aux"]
    /\ lastFp["toc.aux"] # "never"
    /\ fs["toc.aux"] # lastFp["toc.aux"]

\* C9: an aborted pass is never reported Converged, whatever its partial
\* record holds; and a pass whose reads are all of files no pass has ever
\* written is not held to have diverged.
C9_AbortAndFirstRead ==
    /\ phase = "aborted" =>
          /\ verdict # "Converged"
          /\ job.result # "Converged"
    /\ ( /\ phase = "ended"
         /\ \A f \in Names :
               readFp[f] # "unread" =>
                   (lastFp[f] = "never" /\ writeFp[f] = "unwritten") )
       => verdict = "Converged"

\* An aborted pass whose partial record, had it been complete, would have
\* counted as converged: it read a missing file and wrote nothing.
C9_Witness ==
    /\ phase = "aborted"
    /\ readFp["toc.aux"] = "absent"
    /\ \A f \in Names : writeFp[f] = "unwritten"
    /\ PassVerdict(DetectorRecord) = "Converged"
    /\ verdict = "Inconclusive"


\* -------------------------------------------------- claims: error types

IsMsg(k) == k[1] = "Msg"

\* C10: two message-style errors are definitely_same exactly when their
\* message texts are equal, whatever their causes and backtraces; an Ok and
\* an Err are never definitely_same in either order; two Ok compare their
\* values and two Err compare their errors.
C10_WeakEquivalence ==
    /\ (compared /\ cmp = "Error" /\ IsMsg(lhs.kind) /\ IsMsg(rhs.kind)) =>
          (same <=> lhs.kind[2] = rhs.kind[2])
    /\ (compared /\ cmp = "Result" /\ lhs.tag # rhs.tag) => ~same
    /\ (compared /\ cmp = "Result" /\ lhs.tag = "Ok" /\ rhs.tag = "Ok") =>
          (same <=> (IsMsg(lhs.val) /\ IsMsg(rhs.val) /\ lhs.val[2] = rhs.val[2]))
    /\ (compared /\ cmp = "Result" /\ lhs.tag = "Err" /\ rhs.tag = "Err") =>
          (same <=> ( /\ IsMsg(lhs.val.kind) /\ IsMsg(rhs.val.kind)
                      /\ lhs.val.kind[2] = rhs.val.kind[2] ))

\* Two errors with the same message, different causes and backtraces.
C10_Witness ==
    /\ compared
    /\ cmp = "Error"
    /\ lhs.kind = Msg("no such file")
    /\ rhs.kind = Msg("no such file")
    /\ lhs.causes # rhs.causes
    /\ lhs.backtrace # rhs.backtrace
    /\ same

\* C13: definitely_same on two ErrorKinds gives the same answer with the
\* operands exchanged, and is true only for two Msg kinds of equal text: it
\* is false whenever either side is not a Msg, also for two identical
\* kinds with identical fields.
C13_SymmetricNotReflexive ==
    (compared /\ cmp = "ErrorKind") =>
        /\ same = definitely_same_ErrorKind(rhs, lhs)
        /\ same <=> (IsMsg(lhs) /\ IsMsg(rhs) /\ lhs[2] = rhs[2])
        /\ (~IsMsg(lhs) \/ ~IsMsg(rhs)) => ~same
        /\ (lhs = rhs /\ ~IsMsg(lhs)) => ~same

\* PathForbidden(p) compared with PathForbidden(p).
C13_Witness ==
    /\ compared
    /\ cmp = "ErrorKind"
    /\ lhs = PathForbidden("../secret")
    /\ rhs = PathForbidden("../secret")
    /\ ~same

\* C11: dump_uncolorized writes one line per item of the chain, in chain
\* order, the first prefixed `error:` and every later one `caused by:`; an
\* error made by wrapping a failure with a context renders the context
\* first and the failure's message second; backtrace lines come only after
\* all the chain lines.
C11_ChainRendering ==
    dpc \in {"iter", "done"} =>
        LET k == 1 + Len(err.causes)
            text == [i \in 1 .. k |->
                        IF i = 1 THEN Display(err.kind) ELSE err.causes[i - 1]]
        IN  /\ \A i \in 1 .. Len(stderr) :
                  i <= k => stderr[i] =
                      (IF i = 1 THEN "error: " ELSE "caused by: ") \o text[i]
            /\ dpc = "iter" => Len(stderr) = pos - 1 /\ Len(stderr) <= k
            /\ dpc = "done" =>
                  /\ Len(stderr) = k + (IF err.backtrace = "none" THEN 0 ELSE 2)
                  /\ err.backtrace # "none" =>
                        /\ stderr[k + 1] = "debugging: backtrace follows:"
                        /\ stderr[k + 2] = err.backtrace
            /\ (wrapped /\ dpc = "done") =>
                  /\ Len(stderr) >= 2
                  /\ stderr[1] = "error: " \o err.kind[2]
                  /\ stderr[2] = "caused by: " \o Display(inner.kind)

\* An I/O failure wrapped with "while opening input foo.tex", itself with
\* a cause and a backtrace: three chain lines, then the backtrace.
C11_Witness ==
    /\ dpc = "done"
    /\ wrapped
    /\ inner.kind = Io("no such file")
    /\ Len(inner.causes) = 1
    /\ Len(stderr) = 5
    /\ stderr[1] = "error: while opening input foo.tex"
    /\ stderr[2] = "caused by: no such file"
    /\ stderr[4] = "debugging: backtrace follows:"

====
